---- MODULE Spec2Model ----
(***************************************************************************)
(* A model of the physics core of bevy_tank_war:                           *)
(*   - Ballistics and BallisticsPosIterator (src/src/ballistics.rs)        *)
(*   - Landscape: subsidence, update, destroy_circle (src/src/landscape.rs)*)
(*                                                                         *)
(* f32 values are modelled as exact rationals <<n, d>> in lowest terms     *)
(* (d > 0), so every statement below is about the arithmetic the code      *)
(* writes down, free of rounding.  Vec2 is a pair <<x, y>> of rationals.   *)
(***************************************************************************)
EXTENDS Integers, Sequences, FiniteSets, TLC

VARIABLES
    \* ---- Ballistics (ballistics.rs:5-14) ----
    ballistics,            \* the struct's fields, as a record
    iter,                  \* the live BallisticsPosIterator, or NoIter
    pc,                    \* "idle": no iterator; "ready": iterator between
                           \* next() calls; "loop": inside next(); "done":
                           \* next() has returned None
    next_time,             \* local of next()
    rebound_on_prev_step,  \* local of next()
    ret,                   \* what the last next() call returned
    \* ---- history of the Ballistics operations ----
    log,                   \* one record per positions_iter call
    reb,                   \* the last rebound: state before it and its flags
    \* ---- Landscape (landscape.rs:41-57) ----
    landscape,             \* the struct's fields, as a record
    \* ---- history of the Landscape operations ----
    lhist,                 \* what happened since the last subsidence()
    call,                  \* the last Landscape call: its name, arguments,
                           \* the landscape before it and what it returned
    run,                   \* the collapse since the last subsidence()
    \* ---- geometry (geometry/circle.rs, geometry/ellipse.rs) ----
    geom                   \* the last call of a geometry function: its
                           \* name, arguments and what it returned

bvars == <<ballistics, iter, pc, next_time, rebound_on_prev_step, ret,
           log, reb>>

lvars == <<landscape, lhist, call, run>>

gvars == <<geom>>

vars == <<bvars, lvars, gvars>>

\* no geometry function has been called
NoGeom == [op |-> "none", args |-> <<>>, called |-> FALSE, ret |-> <<>>]

-----------------------------------------------------------------------------
(* Rational arithmetic *)

\* The operations are functions of values: an argument is evaluated once,
\* however often the body uses it.

Abs(n) == IF n < 0 THEN -n ELSE n

GCD[a \in Nat, b \in Nat] == IF b = 0 THEN a ELSE GCD[b, a % b]

\* n/d in lowest terms with a positive denominator (d # 0)
Norm[n \in Int, d \in Int] ==
    LET s == IF d < 0 THEN -1 ELSE 1
        g == GCD[Abs(n), Abs(d)]
    IN  <<(s * n) \div g, (s * d) \div g>>
Q(n, d) == Norm[n, d]

Zero == <<0, 1>>
One == <<1, 1>>
Two == <<2, 1>>

Rat == Int \X Int

Sum[a \in Rat, b \in Rat] == Norm[a[1] * b[2] + b[1] * a[2], a[2] * b[2]]
Prod[a \in Rat, b \in Rat] == Norm[a[1] * b[1], a[2] * b[2]]
Leq[a \in Rat, b \in Rat] == a[1] * b[2] <= b[1] * a[2]

\* a faulty variant of Floor: `as i32` alone, which rounds towards 0
Floor_truncating(a) ==
    LET n == Prod[One, a]
    IN  IF n[1] < 0 THEN -((-n[1]) \div n[2]) ELSE n[1] \div n[2]

RNeg(a) == Prod[<<-1, 1>>, a]
RAdd(a, b) == Sum[a, b]
RSub(a, b) == Sum[a, RNeg(b)]
RMul(a, b) == Prod[a, b]
RAbs(a) == Prod[a, IF Leq[Zero, a] THEN One ELSE <<-1, 1>>]
RInv(a) == Prod[One, Norm[a[2], a[1]]]
RLe(a, b) == Leq[a, b]
RLt(a, b) == ~Leq[b, a]
RMax(a, b) == IF Leq[a, b] THEN b ELSE a
RMin(a, b) == IF Leq[a, b] THEN a ELSE b
\* f32::floor followed by `as i32`
Floor(a) == LET n == Prod[One, a] IN n[1] \div n[2]

VAdd(u, v) == <<RAdd(u[1], v[1]), RAdd(u[2], v[2])>>
VScale(u, r) == <<RMul(u[1], r), RMul(u[2], r)>>
FloorVec(u) == <<Floor(u[1]), Floor(u[2])>>

-----------------------------------------------------------------------------
(* Bounds and inputs *)

\* positions_iter calls per trajectory
MaxCalls == 2
\* rebounds per positions_iter run
MaxRebounds == 3

\* The trajectories tried: <<start_pos, start_velocity, acceleration>>
Trajectories ==
    { \* at rest
      <<<<Zero, Zero>>, <<Zero, Zero>>, <<Zero, Zero>>>>,
      \* constant velocity along x, from a pixel corner
      <<<<Zero, Zero>>, <<Two, Zero>>, <<Zero, Zero>>>>,
      \* constant velocity along y, from inside a pixel
      <<<<Q(1, 2), Q(3, 4)>>, <<Zero, One>>, <<Zero, Zero>>>>,
      \* constant diagonal velocity
      <<<<Q(1, 2), Q(3, 4)>>, <<Q(1, 2), Q(1, 2)>>, <<Zero, Zero>>>>,
      \* a shot under gravity
      <<<<Q(1, 2), Q(3, 4)>>, <<One, Zero>>, <<Zero, Q(-1, 1)>>>>,
      \* into the lower right corner of the borders
      <<<<Q(7, 4), Q(3, 4)>>, <<One, Q(-1, 1)>>, <<Zero, Zero>>>> }
TimeScales == { One, Two }
Efficiencies == { Q(1, 2), One }
EndTimes == { Zero, Q(1, 2), One }

NoBorders == [some |-> FALSE, width |-> 0, height |-> 0]
BordersSet == { NoBorders, [some |-> TRUE, width |-> 2, height |-> 1] }

-----------------------------------------------------------------------------
(* Ballistics: pure helpers *)

\* Ballistics::velocity
velocity(b, time) ==
    VAdd(b.start_velocity, VScale(VScale(b.acceleration, time), Two))

\* Ballistics::pos
pos(b, time) ==
    VAdd(b.start_pos,
         VScale(VAdd(b.start_velocity, VScale(b.acceleration, time)), time))

\* Ballistics::pos_and_velocity
pos_and_velocity(b) ==
    <<pos(b, b.last_updated), velocity(b, b.last_updated)>>

\* Ballistics::new
new(start_pos, start_velocity, acceleration) ==
    [ start_pos |-> start_pos,
      start_velocity |-> start_velocity,
      acceleration |-> acceleration,
      cur_pos |-> start_pos,
      last_updated |-> Zero,
      time_scale |-> One,
      rebound_efficiency |-> One ]

\* Ballistics::time_scale
time_scale(b, value) ==
    [b EXCEPT !.time_scale = value, !.last_updated = Zero]

\* Ballistics::rebound_efficiency
rebound_efficiency(b, value) ==
    [b EXCEPT !.rebound_efficiency = value]

\* a faulty variant of apply_rebound: the efficiency is not applied
apply_rebound_unscaled(b, horizontal, vertical) ==
    LET pv == pos_and_velocity(b)
        p == pv[1]
        vx == IF horizontal THEN RNeg(pv[2][1]) ELSE pv[2][1]
        vy == IF vertical THEN RNeg(pv[2][2]) ELSE pv[2][2]
    IN  [b EXCEPT !.start_pos = p,
                  !.start_velocity = <<vx, vy>>,
                  !.cur_pos = p,
                  !.last_updated = Zero]

\* Ballistics::apply_rebound
apply_rebound(b, horizontal, vertical) ==
    LET pv == pos_and_velocity(b)
        p == pv[1]
        vx == IF horizontal THEN RNeg(pv[2][1]) ELSE pv[2][1]
        vy == IF vertical THEN RNeg(pv[2][2]) ELSE pv[2][2]
    IN  [b EXCEPT !.start_pos = p,
                  !.start_velocity = VScale(<<vx, vy>>, b.rebound_efficiency),
                  !.cur_pos = p,
                  !.last_updated = Zero]

\* the four-way max of positions_iter (ballistics.rs:100-105)
max_velocity(b, start_time, end_time) ==
    LET sv == velocity(b, start_time)
        ev == velocity(b, end_time)
    IN  RMax(RMax(RMax(RAbs(sv[1]), RAbs(sv[2])), RAbs(ev[1])), RAbs(ev[2]))

\* the end time of a run in simulation time (ballistics.rs:95-96); `value`
\* is the caller's Some(value), or the time elapsed since `created` for None
scaled_end_time(value, scale) == RMul(value, scale)

\* the sampling step (ballistics.rs:109-113)
time_step_for(mv, time_period) ==
    IF mv = Zero THEN time_period ELSE RInv(RMul(Two, mv))

\* a faulty variant of initial_last_pos: the pixel of the start position
initial_last_pos_of_start(b) == FloorVec(b.start_pos)

\* the pixel the iterator starts in (ballistics.rs:114)
initial_last_pos(b) == FloorVec(b.cur_pos)

\* The iterator positions_iter builds.
positions_iter(b, end_time_arg, borders) ==
    LET start_time == b.last_updated
        end_time == scaled_end_time(end_time_arg, b.time_scale)
        mv == max_velocity(b, start_time, end_time)
        time_period == RSub(end_time, start_time)
        time_step == time_step_for(mv, time_period)
    IN  [ end_time |-> end_time,
          time_step |-> time_step,
          last_time |-> start_time,
          last_pos |-> initial_last_pos(b),
          borders |-> borders ]

\* a faulty variant of horizontal_rebound: the width bound is inclusive
horizontal_rebound_inclusive(x, width) == x < 0 \/ x > width

\* ballistics.rs:155-156
horizontal_rebound(x, width) == x < 0 \/ x >= width
vertical_rebound(y, height) == y < 0 \/ y > height

\* a faulty variant of clamp_time: the sample time is not clamped
clamp_time_unclamped(end_time, time) == time

\* ballistics.rs:145
clamp_time(end_time, time) == RMin(end_time, time)

\* a faulty variant of remaining_time: the time used is not subtracted
remaining_time_kept(end_time, last_time) == end_time

\* the time left after a rebound (ballistics.rs:164)
remaining_time(end_time, last_time) == RSub(end_time, last_time)

\* a faulty variant of damp_horizontal: nothing is forced to 0
damp_horizontal_skipped(b) == b

\* the damping of a rebound that follows a rebound (ballistics.rs:160-163)
damp_horizontal(b) ==
    [b EXCEPT !.start_velocity[1] = Zero, !.acceleration[1] = Zero]

\* One pass through the body of the `while` loop of next()
\* (ballistics.rs:144-176), for loop state nt = next_time,
\* rp = rebound_on_prev_step.  kind tells how the pass ended:
\* "continue" (same pixel), "rebound", or "yield" (return Some).
LoopBody(b, it, nt, rp) ==
    LET nt1 == RAdd(nt, it.time_step)
        clamped_time == clamp_time(it.end_time, nt1)
        p == pos(b, clamped_time)
        pos_i32 == FloorVec(p)
        h == it.borders.some /\ horizontal_rebound(pos_i32[1], it.borders.width)
        v == it.borders.some /\ vertical_rebound(pos_i32[2], it.borders.height)
    IN  IF it.last_pos = pos_i32
        THEN [ kind |-> "continue", b |-> b, it |-> it, nt |-> nt1, rp |-> rp,
               h |-> FALSE, v |-> FALSE, out |-> pos_i32 ]
        ELSE IF h \/ v
        THEN LET b1 == apply_rebound(b, h, v)
                 b2 == IF rp THEN damp_horizontal(b1) ELSE b1
             IN  [ kind |-> "rebound", b |-> b2,
                   it |-> [it EXCEPT !.end_time =
                                         remaining_time(it.end_time, it.last_time),
                                     !.last_time = Zero],
                   nt |-> Zero, rp |-> TRUE, h |-> h, v |-> v, out |-> pos_i32 ]
        ELSE [ kind |-> "yield",
               b |-> [b EXCEPT !.last_updated = clamped_time, !.cur_pos = p],
               it |-> [it EXCEPT !.last_time = nt1, !.last_pos = pos_i32],
               nt |-> nt1, rp |-> rp, h |-> FALSE, v |-> FALSE, out |-> pos_i32 ]

\* a faulty variant of Exhausted: last_updated is not snapped
Exhausted_keeps_time(b, it) == [b EXCEPT !.cur_pos = pos(b, it.end_time)]

\* The exit of next() when the loop condition fails (ballistics.rs:179-181)
Exhausted(b, it) ==
    [b EXCEPT !.cur_pos = pos(b, it.end_time), !.last_updated = it.end_time]

-----------------------------------------------------------------------------
(* Landscape: sizes and inputs *)

\* the terrain is Width x Height cells
Width == 2
Height == 2
\* destroy_circle is called with radius 1 .. MaxRadius
MaxRadius == 3
\* Instant::elapsed() is read in whole ticks of 1 / TicksPerSec seconds
TicksPerSec == 10

\* lib.rs:17
G == <<980665, 100000>>
\* landscape.rs:15
TIME_SCALE == 3

Columns == 0 .. Width - 1
Cells == 0 .. Width * Height - 1
Buffers == [Cells -> 0 .. 1]

\* Option<Instant>: None, or the instant as the time elapsed since it
NoInstant == [some |-> FALSE, elapsed |-> 0]

\* the fields of Landscape the methods below read and write
\* (landscape.rs:41-57)
Landscapes ==
    [ buffer : Buffers, changed : BOOLEAN,
      subsidence_started : [some : BOOLEAN, elapsed : Nat],
      subsidence_last_pos : Nat, subsidence_skip : Nat,
      subsidence_take : Nat ]

Min(a, b) == IF a <= b THEN a ELSE b
Max(a, b) == IF a <= b THEN b ELSE a
MinOf(S) == CHOOSE m \in S : \A n \in S : m <= n
MaxOf(S) == CHOOSE m \in S : \A n \in S : n <= m

-----------------------------------------------------------------------------
(* Landscape: the functions of landscape.rs *)

\* Landscape::index: the point (0, 0) is the left bottom corner
\* Landscape::index with the point (0, 0) in the top left corner
index_top_left(x, y) == y * Width + x

index(x, y) == (Height - y - 1) * Width + x

\* Landscape::generate; ys[x] is the noise-derived y of column x, already
\* clamped to 0 .. Height: buffer rows [0, y) empty, rows [y, Height) solid
generate(ys) ==
    [i \in Cells |-> IF i \div Width >= ys[i % Width] THEN 1 ELSE 0]

\* Landscape::generate without the pass that empties the rows [0, y)
generate_into_solid_only(l, ys) ==
    [l EXCEPT !.buffer = [i \in Cells |->
                             IF i \div Width >= ys[i % Width] THEN 1
                             ELSE @[i]]]

\* Landscape::generate called on a landscape that already holds a buffer:
\* of column x the rows [0, y) are written 0 and the rows [y, Height) 1
generate_into(l, ys) ==
    [l EXCEPT !.buffer = [i \in Cells |->
                             IF i \div Width < ys[i % Width] THEN 0
                             ELSE IF i \div Width >= ys[i % Width] THEN 1
                             ELSE @[i]]]

\* update_landscape_texture_system: copies the buffer out when the
\* landscape is dirty, then clears the flag
texture_sync(l) == IF l.changed THEN [l EXCEPT !.changed = FALSE] ELSE l

\* Landscape::new
LandscapeNew(ys) ==
    [ buffer |-> generate(ys),
      changed |-> TRUE,
      subsidence_started |-> NoInstant,
      subsidence_last_pos |-> 0,
      subsidence_skip |-> 0,
      subsidence_take |-> Width ]

\* Landscape::get_pixels_line_mut: the buffer indices of the slice; None is
\* the empty set
get_pixels_line_unclipped(x, y, length) ==
    IF x < 0 \/ y < 0 \/ x >= Width \/ y >= Height \/ length = 0
    THEN {}
    ELSE index(x, y) .. index(x, y) + length - 1

get_pixels_line_mut(x, y, length) ==
    IF x < 0 \/ y < 0 \/ x >= Width \/ y >= Height \/ length = 0
    THEN {}
    ELSE index(x, y) .. index(x, y) + Min(Width - x, length) - 1

\* Landscape::is_not_empty
is_not_empty(l, x, y) ==
    IF x < 0 \/ y < 0 \/ x >= Width \/ y >= Height
    THEN FALSE
    ELSE l.buffer[index(x, y)] > 0

\* Landscape::subsidence that never sets the anchor instant
subsidence_without_anchor(l) ==
    [l EXCEPT !.subsidence_last_pos = 0,
              !.subsidence_skip = 0,
              !.subsidence_take = Width]

\* Landscape::subsidence
subsidence(l) ==
    [l EXCEPT !.subsidence_started =
                  IF l.subsidence_started.some THEN @
                  ELSE [some |-> TRUE, elapsed |-> 0],
              !.subsidence_last_pos = 0,
              !.subsidence_skip = 0,
              !.subsidence_take = Width]

\* Landscape::is_subsidence
is_subsidence(l) == l.subsidence_started.some

\* (G * time * time * TIME_SCALE).round() as u32 (landscape.rs:206-207)
subsidence_cur_pos[elapsed \in Nat] ==
    Floor(RAdd(RMul(RMul(RMul(G, Q(elapsed, TicksPerSec)),
                         Q(elapsed, TicksPerSec)),
                    <<TIME_SCALE, 1>>),
               Q(1, 2)))

\* a faulty variant of Falls: an empty cell is filled from whatever is above
Falls_into_empty(top_pixel, cur_pixel) == cur_pixel = 0

\* a faulty variant of Falls: every solid cell counts as falling
Falls_always(top_pixel, cur_pixel) == top_pixel # 0

\* the filter of the row pass (landscape.rs:228-230)
Falls(top_pixel, cur_pixel) == cur_pixel = 0 /\ top_pixel # 0

\* the locals changed, left_changed_pos and right_changed_pos of a drop step
\* (landscape.rs:212-215)
Acc == [changed : BOOLEAN, left : Nat, right : Nat]

\* a window of columns that leaves out its first column
Window_without_first(skip, take) ==
    { c \in Columns : skip < c /\ c < skip + take }

\* the columns .skip(skip).take(take) lets through (landscape.rs:225-226)
Window(skip, take) == { c \in Columns : skip <= c /\ c < skip + take }

\* one pass over a row and the row above it (landscape.rs:219-244): r is the
\* buffer row of current_row; acc carries changed, left_changed_pos and
\* right_changed_pos
RowPass[buf \in Buffers, r \in Nat, skip \in Nat, take \in Nat, acc \in Acc] ==
    LET fell == { c \in Window(skip, take) :
                      Falls(buf[(r - 1) * Width + c], buf[r * Width + c]) }
    IN  [ buf |-> [i \in Cells |->
                      IF i \div Width = r /\ (i % Width) \in fell
                      THEN buf[i - Width]
                      ELSE IF i \div Width = r - 1 /\ (i % Width) \in fell
                           THEN 0
                           ELSE buf[i]],
          acc |-> IF fell = {} THEN acc
                  ELSE [ changed |-> TRUE,
                         left |-> Min(acc.left,
                                      MinOf({c - skip : c \in fell})),
                         right |-> Max(acc.right,
                                       MaxOf({c - skip : c \in fell})) ] ]

\* the passes of one drop step, from the bottom row up (landscape.rs:218-244)
RowsFrom[buf \in Buffers, r \in Int, skip \in Nat, take \in Nat, acc \in Acc] ==
    IF r < 1 THEN [buf |-> buf, acc |-> acc]
    ELSE RowsFrom[RowPass[buf, r, skip, take, acc].buf, r - 1, skip, take,
                  RowPass[buf, r, skip, take, acc].acc]

\* one drop step (landscape.rs:212-244)
DropStep[buf \in Buffers, skip \in Nat, take \in Nat] ==
    RowsFrom[buf, Height - 1, skip, take,
             [changed |-> FALSE, left |-> take, right |-> 0]]

\* the window after a drop step (landscape.rs:247-248)
narrowed(l, acc) ==
    [l EXCEPT !.subsidence_skip = @ + acc.left,
              !.subsidence_take = acc.right + 1]

\* the loop `for _ in 0..delta` (landscape.rs:211-257); moved counts the
\* passes of the loop in which a cell fell, steps all its passes
DropSteps[l \in Landscapes, delta \in Nat, moved \in Nat, steps \in Nat] ==
    IF delta = 0
    THEN [l |-> l, ret |-> FALSE, moved |-> moved > 0, steps |-> steps]
    ELSE IF DropStep[l.buffer, l.subsidence_skip, l.subsidence_take].acc.changed
         THEN DropSteps[
                  [narrowed(l, DropStep[l.buffer, l.subsidence_skip,
                                        l.subsidence_take].acc)
                      EXCEPT !.buffer = DropStep[l.buffer, l.subsidence_skip,
                                                 l.subsidence_take].buf,
                             !.changed = TRUE],
                  delta - 1, moved + 1, steps + 1]
         ELSE [ l |-> [narrowed(l, DropStep[l.buffer, l.subsidence_skip,
                                            l.subsidence_take].acc)
                          EXCEPT !.subsidence_started = NoInstant],
                ret |-> TRUE, moved |-> moved > 0, steps |-> steps + 1 ]

\* Landscape::update that does not store the drop distance it has reached
update_keeps_last_pos(l) ==
    IF l.subsidence_started.some
    THEN DropSteps[
             l,
             subsidence_cur_pos[l.subsidence_started.elapsed]
                 - l.subsidence_last_pos,
             0, 0]
    ELSE [l |-> l, ret |-> FALSE, moved |-> FALSE, steps |-> 0]

\* Landscape::update: the landscape after the call and the value returned
update(l) ==
    IF l.subsidence_started.some
    THEN DropSteps[
             [l EXCEPT !.subsidence_last_pos =
                           subsidence_cur_pos[l.subsidence_started.elapsed]],
             subsidence_cur_pos[l.subsidence_started.elapsed]
                 - l.subsidence_last_pos,
             0, 0]
    ELSE [l |-> l, ret |-> FALSE, moved |-> FALSE, steps |-> 0]

\* the cells the scanlines of line_drawing::BresenhamCircle cover, as
\* destroy_circle walks them (landscape.rs:264-277): of each chunk of four
\* points the first and the third span the scanline
CircleCells[cx \in Int, cy \in Int, x \in Int, y \in Int, error \in Int] ==
    IF x >= 0 THEN {}
    ELSE
      LET x1 == cx - x
          x2 == cx + x
          xs == Max(Min(x1, x2), 0)
          len == Max(Max(x1, x2), 0) - xs
          here == IF len = 0 THEN {}
                  ELSE get_pixels_line_mut(xs, cy + y, len)
                       \cup get_pixels_line_mut(xs, cy - y, len)
          y_n == IF error <= y THEN y + 1 ELSE y
          e_1 == IF error <= y THEN error + 2 * y_n + 1 ELSE error
          adv == error > x \/ e_1 > y_n
          x_n == IF adv THEN x + 1 ELSE x
          e_2 == IF adv THEN e_1 + 2 * x_n + 1 ELSE e_1
      IN  here \cup CircleCells[cx, cy, x_n, y_n, e_2]

\* the points line_drawing::BresenhamCircle yields (all four of each chunk)
CirclePoints[cx \in Int, cy \in Int, x \in Int, y \in Int, error \in Int] ==
    IF x >= 0 THEN {}
    ELSE
      LET y_n == IF error <= y THEN y + 1 ELSE y
          e_1 == IF error <= y THEN error + 2 * y_n + 1 ELSE error
          adv == error > x \/ e_1 > y_n
          x_n == IF adv THEN x + 1 ELSE x
          e_2 == IF adv THEN e_1 + 2 * x_n + 1 ELSE e_1
      IN  { <<cx - x, cy + y>>, <<cx - y, cy - x>>,
            <<cx + x, cy - y>>, <<cx + y, cy + x>> }
              \cup CirclePoints[cx, cy, x_n, y_n, e_2]

\* Landscape::destroy_circle that clears the scanlines up to the centre only
destroy_circle_left_half(l, cx, cy, radius) ==
    LET cleared == { i \in CircleCells[cx, cy, -(radius - 1), 0,
                                       2 - 2 * (radius - 1)] :
                         i % Width <= cx }
    IN  [l EXCEPT !.buffer = [i \in Cells |->
                                 IF i \in cleared THEN 0 ELSE l.buffer[i]],
                  !.changed = @ \/ (\E i \in cleared : l.buffer[i] # 0)]

\* Landscape::destroy_circle that calls set_changed() whatever it found
destroy_circle_always_changed(l, cx, cy, radius) ==
    LET cleared == CircleCells[cx, cy, -(radius - 1), 0,
                               2 - 2 * (radius - 1)]
    IN  [l EXCEPT !.buffer = [i \in Cells |->
                                 IF i \in cleared THEN 0 ELSE l.buffer[i]],
                  !.changed = TRUE]

\* Landscape::destroy_circle; position is already truncated to integers
destroy_circle(l, cx, cy, radius) ==
    LET cleared == CircleCells[cx, cy, -(radius - 1), 0,
                               2 - 2 * (radius - 1)]
    IN  [l EXCEPT !.buffer = [i \in Cells |->
                                 IF i \in cleared THEN 0 ELSE l.buffer[i]],
                  !.changed = @ \/ (\E i \in cleared : l.buffer[i] # 0)]

-----------------------------------------------------------------------------
(* Landscape: the state after construction *)

\* a solid cell with an empty cell directly below it
Floating(buf) ==
    \E i \in Cells : i + Width \in Cells /\ buf[i] # 0 /\ buf[i + Width] = 0

\* lhist: update_ret is what the last update() since the last subsidence()
\* returned, updates counts those calls (up to 2), settled tells that the
\* last subsidence() found no floating cell and destroy_circle has not run
\* since, moved tells that some cell fell since the last subsidence()
NoHist ==
    [update_ret |-> "none", updates |-> 0, settled |-> FALSE, moved |-> FALSE]

\* stands for the landscape where there is none to record
NoLandscape == [changed |-> FALSE, subsidence_started |-> NoInstant]

\* nothing has been called on the landscape since Landscape::new
NoCall ==
    [op |-> "new", args |-> <<>>, before |-> NoLandscape, ret |-> FALSE]

\* no subsidence() has been called on the landscape as it is
NoRun ==
    [l0 |-> NoLandscape, t_last |-> 0, steps |-> 0, trues |-> 0,
     valid |-> FALSE]

LInit ==
    /\ \E ys \in [Columns -> 0 .. Height] : landscape = LandscapeNew(ys)
    /\ lhist = NoHist
    /\ call = NoCall
    /\ run = NoRun

\* the terrain of a Ballistics that is looked at alone
LIdle ==
    /\ landscape = LandscapeNew([c \in Columns |-> Height \div 2])
    /\ lhist = NoHist
    /\ call = NoCall
    /\ run = NoRun

-----------------------------------------------------------------------------
(* Ballistics: the state machine *)

NoIter ==
    [ end_time |-> Zero, time_step |-> Zero, last_time |-> Zero,
      last_pos |-> <<0, 0>>, borders |-> NoBorders ]
NoRet == [kind |-> "nothing", x |-> 0, y |-> 0]
NoReb == [b |-> new(<<Zero, Zero>>, <<Zero, Zero>>, <<Zero, Zero>>),
          last_time |-> Zero, h |-> FALSE, v |-> FALSE, dbl |-> FALSE]

\* a Ballistics right after Ballistics::new, with no iterator on it
BFresh(trs) ==
    /\ \E tr \in trs : ballistics = new(tr[1], tr[2], tr[3])
    /\ iter = NoIter
    /\ pc = "idle"
    /\ next_time = Zero
    /\ rebound_on_prev_step = FALSE
    /\ ret = NoRet
    /\ log = <<>>
    /\ reb = NoReb

BInitFrom(trs) == BFresh(trs) /\ geom = NoGeom

BInit == BInitFrom(Trajectories)

\* b = b.time_scale(value)
TimeScale ==
    /\ pc = "idle"
    /\ \E value \in TimeScales :
           /\ value # ballistics.time_scale
           /\ ballistics' = time_scale(ballistics, value)
    /\ UNCHANGED <<iter, pc, next_time, rebound_on_prev_step, ret, log, reb>>
    /\ UNCHANGED <<lvars, gvars>>

\* b = b.rebound_efficiency(value): builder-style, before the first run
ReboundEfficiency ==
    /\ pc = "idle"
    /\ log = <<>>
    /\ \E value \in Efficiencies :
           /\ value # ballistics.rebound_efficiency
           /\ ballistics' = rebound_efficiency(ballistics, value)
    /\ UNCHANGED <<iter, pc, next_time, rebound_on_prev_step, ret, log, reb>>
    /\ UNCHANGED <<lvars, gvars>>

\* let it = b.positions_iter(end_time, borders)
PositionsIter ==
    /\ pc = "idle"
    /\ Len(log) < MaxCalls
    /\ \E t \in EndTimes,
          bd \in IF log # <<>> THEN {log[1].borders}
                 \* rebound_efficiency is read by rebounds only: it is
                 \* configured for the runs with borders
                 ELSE IF ballistics.rebound_efficiency = One THEN BordersSet
                 ELSE BordersSet \ {NoBorders} :
           \* the clock does not run backwards
           /\ RLe(ballistics.last_updated,
                  scaled_end_time(t, ballistics.time_scale))
           /\ iter' = positions_iter(ballistics, t, bd)
           /\ log' = Append(log,
                  [ b0 |-> ballistics, arg |-> t, borders |-> bd,
                    end0 |-> positions_iter(ballistics, t, bd).end_time,
                    path |-> <<>>, rebound_times |-> <<>>,
                    done |-> FALSE, b_end |-> ballistics ])
    /\ pc' = "ready"
    /\ ret' = NoRet
    /\ UNCHANGED <<ballistics, next_time, rebound_on_prev_step, reb>>
    /\ UNCHANGED <<lvars, gvars>>

\* it.next() is called: the two locals are initialised (ballistics.rs:140-141)
NextEnter ==
    /\ pc \in {"ready", "done"}
    /\ next_time' = iter.last_time
    /\ rebound_on_prev_step' = FALSE
    /\ pc' = "loop"
    /\ UNCHANGED <<ballistics, iter, ret, log, reb>>
    /\ UNCHANGED <<lvars, gvars>>

InLoop == pc = "loop" /\ RLe(next_time, iter.end_time)

Step == LoopBody(ballistics, iter, next_time, rebound_on_prev_step)

\* a pass of the loop that samples the pixel it already is in
LoopContinue ==
    /\ InLoop
    /\ LET s == Step
       IN  /\ s.kind = "continue"
           /\ next_time' = s.nt
    /\ UNCHANGED <<ballistics, iter, pc, rebound_on_prev_step, ret, log, reb>>
    /\ UNCHANGED <<lvars, gvars>>

\* a pass of the loop that samples a pixel outside the borders
LoopRebound ==
    /\ InLoop
    /\ Len(log[Len(log)].rebound_times) < MaxRebounds
    /\ LET s == Step
       IN  /\ s.kind = "rebound"
           /\ ballistics' = s.b
           /\ iter' = s.it
           /\ next_time' = s.nt
           /\ rebound_on_prev_step' = s.rp
           /\ reb' = [ b |-> ballistics, last_time |-> iter.last_time,
                       h |-> s.h, v |-> s.v, dbl |-> rebound_on_prev_step ]
    /\ log' = [log EXCEPT ![Len(log)].rebound_times =
                              Append(@, ballistics.last_updated)]
    /\ UNCHANGED <<pc, ret>>
    /\ UNCHANGED <<lvars, gvars>>

\* a pass of the loop that returns Some(pos_i32)
LoopYield ==
    /\ InLoop
    /\ LET s == Step
       IN  /\ s.kind = "yield"
           /\ ballistics' = s.b
           /\ iter' = s.it
           /\ next_time' = s.nt
           /\ ret' = [kind |-> "some", x |-> s.out[1], y |-> s.out[2]]
           /\ log' = [log EXCEPT ![Len(log)].path = Append(@, s.out)]
    /\ pc' = "ready"
    /\ UNCHANGED <<rebound_on_prev_step, reb>>
    /\ UNCHANGED <<lvars, gvars>>

\* the loop condition fails: next() returns None
LoopExit ==
    /\ pc = "loop"
    /\ ~RLe(next_time, iter.end_time)
    /\ ballistics' = Exhausted(ballistics, iter)
    /\ ret' = [kind |-> "none", x |-> 0, y |-> 0]
    /\ log' = [log EXCEPT ![Len(log)].done = TRUE,
                          ![Len(log)].b_end = ballistics']
    /\ pc' = "done"
    /\ UNCHANGED <<iter, next_time, rebound_on_prev_step, reb>>
    /\ UNCHANGED <<lvars, gvars>>

\* the iterator is dropped, exhausted or not
Drop ==
    /\ pc \in {"ready", "done"}
    /\ pc' = "idle"
    /\ iter' = NoIter
    /\ UNCHANGED <<ballistics, next_time, rebound_on_prev_step, ret, log, reb>>
    /\ UNCHANGED <<lvars, gvars>>

BNext ==
    \/ TimeScale
    \/ ReboundEfficiency
    \/ PositionsIter
    \/ NextEnter
    \/ LoopContinue
    \/ LoopRebound
    \/ LoopYield
    \/ LoopExit
    \/ Drop

\* a Ballistics looked at alone: the terrain stays as generated
Init == BInit /\ LIdle

Spec == Init /\ [][BNext]_vars

\* A caller that keeps pulling: a started next() runs on, and a live
\* iterator that is not dropped is polled again.
Pull == NextEnter \/ LoopContinue \/ LoopRebound \/ LoopYield \/ LoopExit

\* one configured trajectory, sampled by one positions_iter run
FirstRun == log = <<>> /\ (TimeScale \/ ReboundEfficiency \/ PositionsIter)

FairNext == FirstRun \/ Pull

FairSpec == Init /\ [][FairNext]_vars /\ WF_vars(Pull)

-----------------------------------------------------------------------------
(* Landscape: the state machine *)

\* landscape.subsidence()
Subsidence ==
    /\ landscape' = subsidence(landscape)
    /\ lhist' = [NoHist EXCEPT !.settled = ~Floating(landscape.buffer)]
    /\ UNCHANGED <<call, run, bvars, gvars>>

\* landscape.update(), called by update_landscape_system every frame
Update ==
    /\ landscape' = update(landscape).l
    /\ lhist' = [lhist EXCEPT
                     !.update_ret = IF update(landscape).ret THEN "true"
                                    ELSE "false",
                     !.updates = Min(@ + 1, 2),
                     !.moved = @ \/ update(landscape).moved]
    /\ UNCHANGED <<call, run, bvars, gvars>>

\* time passes while the terrain subsides; once the drop distance exceeds
\* the height it can move nothing more
Tick ==
    /\ is_subsidence(landscape)
    /\ subsidence_cur_pos[landscape.subsidence_started.elapsed] <= Height
    /\ landscape' = [landscape EXCEPT !.subsidence_started.elapsed = @ + 1]
    /\ UNCHANGED <<lhist, call, run, bvars, gvars>>

\* landscape.destroy_circle(position, radius)
DestroyCircle ==
    /\ \E cx \in Columns, cy \in 0 .. Height - 1, radius \in 1 .. MaxRadius :
           landscape' = destroy_circle(landscape, cx, cy, radius)
    /\ lhist' = [lhist EXCEPT !.settled = FALSE]
    /\ UNCHANGED <<call, run, bvars, gvars>>

LNext ==
    \/ Subsidence
    \/ Update
    \/ Tick
    \/ DestroyCircle

\* a Ballistics at rest that nobody touches
BIdle == BInitFrom({<<<<Zero, Zero>>, <<Zero, Zero>>, <<Zero, Zero>>>>})

\* a Landscape looked at alone
LandscapeInit == BIdle /\ LInit

LandscapeSpec == LandscapeInit /\ [][LNext]_vars

\* Explosions carve the terrain only while it is not subsiding
\* (explosion.rs:174-177 starts the subsidence when the last one is over).
Blast == ~is_subsidence(landscape) /\ DestroyCircle

FairLNext ==
    \/ Blast
    \/ Subsidence
    \/ Update
    \/ Tick

\* update() keeps being called and the elapsed time keeps growing
FairLandscapeSpec ==
    LandscapeInit /\ [][FairLNext]_vars /\ WF_vars(Update) /\ WF_vars(Tick)

-----------------------------------------------------------------------------
(* Landscape: one call at a time, each recorded with the landscape it was
   made on *)

\* the truncated centres of the explosions: on the terrain and one cell
\* outside it on every side
Centres == (-1 .. Width) \X (-1 .. Height)

\* landscape.subsidence()
SubsidenceCall ==
    /\ landscape' = subsidence(landscape)
    /\ call' = [op |-> "subsidence", args |-> <<>>, before |-> landscape,
                ret |-> FALSE]
    /\ run' = [l0 |-> landscape',
               t_last |-> landscape'.subsidence_started.elapsed,
               steps |-> 0, trues |-> 0, valid |-> TRUE]
    /\ UNCHANGED <<lhist, bvars, gvars>>

\* landscape.update()
UpdateCall ==
    LET u == update(landscape)
    IN  /\ landscape' = u.l
        /\ call' = [op |-> "update", args |-> <<>>, before |-> landscape,
                    ret |-> u.ret]
        /\ run' = [run EXCEPT
                       !.t_last = IF is_subsidence(landscape)
                                  THEN landscape.subsidence_started.elapsed
                                  ELSE @,
                       !.steps = @ + u.steps,
                       !.trues = Min(@ + (IF u.ret THEN 1 ELSE 0), 2)]
        /\ UNCHANGED <<lhist, bvars, gvars>>

\* time passes between two calls while the terrain subsides
Elapse ==
    /\ is_subsidence(landscape)
    /\ subsidence_cur_pos[landscape.subsidence_started.elapsed] <= Height
    /\ landscape' = [landscape EXCEPT !.subsidence_started.elapsed = @ + 1]
    /\ call' = [op |-> "elapse", args |-> <<>>, before |-> landscape,
                ret |-> FALSE]
    /\ UNCHANGED <<lhist, run, bvars, gvars>>

\* landscape.destroy_circle(position, radius): explosions carve the terrain
\* while it is not subsiding, and the texture is synchronised every frame
DestroyCircleCall ==
    /\ ~is_subsidence(landscape)
    /\ call.op \in {"new", "texture_sync"}
    /\ run = NoRun
    /\ \E c \in Centres, radius \in 1 .. MaxRadius :
           /\ landscape' = destroy_circle(landscape, c[1], c[2], radius)
           /\ call' = [op |-> "destroy_circle", args |-> <<c[1], c[2], radius>>,
                       before |-> landscape, ret |-> FALSE]
    /\ run' = NoRun
    /\ UNCHANGED <<lhist, bvars, gvars>>

\* landscape.generate() with new noise values (scroll_landscape changes dx)
GenerateCall ==
    /\ ~is_subsidence(landscape)
    /\ call.op \in {"new", "texture_sync"}
    /\ run = NoRun
    /\ \E ys \in [Columns -> 0 .. Height] :
           /\ landscape' = generate_into(landscape, ys)
           /\ call' = [op |-> "generate", args |-> ys, before |-> landscape,
                       ret |-> FALSE]
    /\ run' = NoRun
    /\ UNCHANGED <<lhist, bvars, gvars>>

\* update_landscape_texture_system finds the landscape dirty
TextureSyncCall ==
    /\ landscape.changed
    /\ landscape' = texture_sync(landscape)
    /\ call' = [op |-> "texture_sync", args |-> <<>>, before |-> landscape,
                ret |-> FALSE]
    /\ UNCHANGED <<lhist, run, bvars, gvars>>

CallNext ==
    \/ SubsidenceCall
    \/ UpdateCall
    \/ Elapse
    \/ DestroyCircleCall
    \/ GenerateCall
    \/ TextureSyncCall

CallInit == BIdle /\ LInit

CallSpec == CallInit /\ [][CallNext]_vars

-----------------------------------------------------------------------------
(* Landscape: the queries, each asked once on a terrain that explosions
   have carved *)

\* the points asked about: the terrain and one cell outside it on every side
QueryPoints == (-1 .. Width) \X (-1 .. Height)

\* the lengths asked for (u16): none, inside the row, and past its end
QueryLengths == 0 .. Width + 1

\* explosions before the query
Carve == call.op = "new" /\ DestroyCircle

\* landscape.is_not_empty(x, y)
IsNotEmptyCall ==
    /\ call.op = "new"
    /\ \E p \in QueryPoints :
           call' = [op |-> "is_not_empty", args |-> p, before |-> landscape,
                    ret |-> is_not_empty(landscape, p[1], p[2])]
    /\ UNCHANGED <<landscape, lhist, run, bvars, gvars>>

\* landscape.get_pixels_line_mut((x, y), length), the slice not written to;
\* ret is whether the call returned Some, view the cells of the slice
GetPixelsLineCall ==
    /\ call.op = "new"
    /\ \E p \in QueryPoints, length \in QueryLengths :
           call' = [op |-> "get_pixels_line_mut",
                    args |-> <<p[1], p[2], length>>,
                    before |-> landscape,
                    ret |-> get_pixels_line_mut(p[1], p[2], length) # {},
                    view |-> get_pixels_line_mut(p[1], p[2], length)]
    /\ UNCHANGED <<landscape, lhist, run, bvars, gvars>>

QueryNext ==
    \/ Carve
    \/ IsNotEmptyCall
    \/ GetPixelsLineCall

QueryInit == BIdle /\ LInit

QuerySpec == QueryInit /\ [][QueryNext]_vars

-----------------------------------------------------------------------------
(* Ballistics: what the claims speak about *)

\* the steps bound of the reference run below
MaxFuel == 64

\* next() called until it returns None (ballistics.rs:139-182), as a
\* function: the pixels it returns, in order, appended to `path`.
RECURSIVE RunToEnd(_, _, _, _, _, _)
RunToEnd(b, it, nt, rp, path, fuel) ==
    IF fuel = 0 \/ ~RLe(nt, it.end_time)
    THEN path
    ELSE LET s == LoopBody(b, it, nt, rp)
         IN  IF s.kind = "yield"
             THEN RunToEnd(s.b, s.it, s.it.last_time, FALSE,
                           Append(path, s.out), fuel - 1)
             ELSE RunToEnd(s.b, s.it, s.nt, s.rp, path, fuel - 1)

\* the pixels of one exhausted positions_iter(Some(t), borders) on b
FullPath(b, t, borders) ==
    LET it == positions_iter(b, t, borders)
    IN  RunToEnd(b, it, it.last_time, FALSE, <<>>, MaxFuel)

RECURSIVE SumSeq(_)
SumSeq(q) == IF q = <<>> THEN Zero ELSE RAdd(Head(q), SumSeq(Tail(q)))

InBorders(p, bd) ==
    /\ 0 <= p[1] /\ p[1] < bd.width
    /\ 0 <= p[2] /\ p[2] <= bd.height

Runs == DOMAIN log

\* run k started from a state whose cur_pos is the start position at time 0
FromStart(k) ==
    /\ log[k].b0.last_updated = Zero
    /\ log[k].b0.cur_pos = log[k].b0.start_pos

NoAcceleration(k) == log[k].b0.acceleration = <<Zero, Zero>>

AlongX(k) ==
    /\ RLt(Zero, log[k].b0.start_velocity[1])
    /\ log[k].b0.start_velocity[2] = Zero
AlongY(k) ==
    /\ log[k].b0.start_velocity[1] = Zero
    /\ RLt(Zero, log[k].b0.start_velocity[2])

\* the speed along the axis of motion, and the unit pixel step along it
Speed(k) ==
    IF AlongX(k) THEN log[k].b0.start_velocity[1]
    ELSE log[k].b0.start_velocity[2]
StartCoord(k) ==
    IF AlongX(k) THEN log[k].b0.start_pos[1] ELSE log[k].b0.start_pos[2]
Along(k, px, i) ==
    IF AlongX(k) THEN <<px[1] + i, px[2]>> ELSE <<px[1], px[2] + i>>

\* every pixel of the path is one pixel further than the one before it
OnePixelSteps(k) ==
    \A i \in 1..(Len(log[k].path) - 1) :
        log[k].path[i + 1] = Along(k, log[k].path[i], 1)

\* the runs C4 speaks about
C4_Case(k) ==
    /\ log[k].done
    /\ NoAcceleration(k)
    /\ log[k].b0.time_scale = One
    /\ log[k].b0.last_updated = Zero
    /\ ~log[k].borders.some
    /\ AlongX(k) \/ AlongY(k)

-----------------------------------------------------------------------------
(* Ballistics: the claims *)

\* the run has reached the number of rebounds this model follows
C1_Capped ==
    /\ InLoop
    /\ Step.kind = "rebound"
    /\ Len(log[Len(log)].rebound_times) >= MaxRebounds

\* C1 (as claimed): every positions_iter run is finite: a live iterator
\* whose end time is not before last_updated and that the caller keeps
\* pulling returns None after finitely many steps (or is dropped, or meets
\* the rebound bound of this model).
C1_Terminates ==
    (pc \in {"ready", "loop"})
        ~> (pc = "done" \/ pc = "idle" \/ C1_Capped)

\* C2: with borders, every pixel returned lies in 0 <= x < width and
\* 0 <= y <= height, and a sampled new pixel outside that range makes the
\* pass a rebound.
C2_YieldsInsideBorders ==
    /\ \A k \in Runs :
           log[k].borders.some =>
               \A i \in DOMAIN log[k].path :
                   InBorders(log[k].path[i], log[k].borders)
    /\ (InLoop /\ iter.borders.some) =>
           LET s == Step
           IN  (s.out # iter.last_pos /\ ~InBorders(s.out, iter.borders))
                   => s.kind = "rebound"

\* a run with borders that rebounded and then returned a pixel
C2_Witness ==
    \E k \in Runs :
        /\ log[k].borders.some
        /\ Len(log[k].rebound_times) > 0
        /\ Len(log[k].path) > 0
        /\ ret.kind = "some"

\* C3 (as claimed): cur_pos is pos(last_updated) of the current start
\* state, whatever operations have run.
C3_CurPosConsistent ==
    ballistics.cur_pos = pos(ballistics, ballistics.last_updated)

\* C4 (as claimed): a constant-velocity run along one axis with speed v,
\* over T, without borders, from last_updated = 0, returns exactly
\* floor(v * T) pixels, each one pixel further than the one before.
C4_CountIsFloorVT ==
    \A k \in Runs :
        C4_Case(k) =>
            /\ Len(log[k].path) = Floor(RMul(Speed(k), log[k].arg))
            /\ OnePixelSteps(k)

\* C4 (amended): from cur_pos = start_pos = p the run returns exactly
\* floor(p + v * T) - floor(p) pixels along the axis, the first one pixel
\* further than the pixel of p and each next one pixel further again.
C4_CountIsPixelsCrossed ==
    \A k \in Runs :
        (C4_Case(k) /\ FromStart(k)) =>
            /\ Len(log[k].path) =
                   Floor(RAdd(StartCoord(k), RMul(Speed(k), log[k].arg)))
                       - Floor(StartCoord(k))
            /\ \A i \in DOMAIN log[k].path :
                   log[k].path[i] = Along(k, FloorVec(log[k].b0.start_pos), i)

\* an exhausted axis-aligned run from the start that returned two pixels or more
C4_Witness ==
    \E k \in Runs :
        /\ C4_Case(k) /\ FromStart(k)
        /\ Len(log[k].path) >= 2
        /\ ret.kind = "none"

\* the pairs of runs C5 speaks about: run k exhausted, then run k + 1
\* exhausted with a later end time and nothing done in between
C5_Case(k) ==
    /\ k + 1 \in Runs
    /\ log[k].done /\ log[k + 1].done
    /\ log[k + 1].b0 = log[k].b_end
    /\ NoAcceleration(k)
    /\ ~log[k].borders.some
    /\ RLe(Zero, log[k].arg)
    /\ RLt(log[k].arg, log[k + 1].arg)

\* C5 (as claimed): for a constant-velocity trajectory without borders, the
\* pixels of a run to T1 followed by the pixels of a run to T2 > T1 are the
\* pixels of one run to T2.
C5_SplitKeepsPath ==
    \A k \in Runs :
        C5_Case(k) =>
            log[k].path \o log[k + 1].path
                = FullPath(log[k].b0, log[k + 1].arg, log[k].borders)

\* the run starts from a trajectory whose cur_pos is pos(last_updated)
Consistent(k) == log[k].b0.cur_pos = pos(log[k].b0, log[k].b0.last_updated)

\* the runs of C5 with the velocity along one axis
C5_AxisCase(k) == C5_Case(k) /\ (AlongX(k) \/ AlongY(k)) /\ Consistent(k)

\* C5 (amended): for a constant velocity along one axis, without borders,
\* and a trajectory whose cur_pos is pos(last_updated) when the first run
\* starts, the pixels of a run to T1 followed by the pixels of a run to
\* T2 > T1 are the pixels of one run to T2.
C5_SplitKeepsAxisPath ==
    \A k \in Runs :
        C5_AxisCase(k) =>
            log[k].path \o log[k + 1].path
                = FullPath(log[k].b0, log[k + 1].arg, log[k].borders)

\* two exhausted runs in a row, each of which returned a pixel
C5_Witness ==
    \E k \in Runs :
        /\ C5_AxisCase(k)
        /\ log[k].path # <<>>
        /\ log[k + 1].path # <<>>

\* a rebound has just been applied by the running next()
JustRebounded ==
    pc = "loop" /\ rebound_on_prev_step /\ next_time = Zero

\* the position and velocity at the last persisted time before the rebound
PreReboundPos == pos(reb.b, reb.b.last_updated)
PreReboundVelocity == velocity(reb.b, reb.b.last_updated)
\* that velocity, the violated components negated, times the efficiency
Reflected ==
    <<RMul(IF reb.h THEN RNeg(PreReboundVelocity[1]) ELSE PreReboundVelocity[1],
           reb.b.rebound_efficiency),
      RMul(IF reb.v THEN RNeg(PreReboundVelocity[2]) ELSE PreReboundVelocity[2],
           reb.b.rebound_efficiency)>>

\* C6 (as claimed): a rebound re-anchors the trajectory: start_pos and
\* cur_pos become the position at the last persisted time, last_updated
\* becomes 0, and the start velocity is the velocity at that time with the
\* violated components negated, scaled by rebound_efficiency.
C6_ReboundReanchors ==
    JustRebounded =>
        /\ ballistics.start_pos = PreReboundPos
        /\ ballistics.cur_pos = PreReboundPos
        /\ ballistics.last_updated = Zero
        /\ ballistics.start_velocity = Reflected

\* C6 (amended): the same, except that a rebound that follows another
\* rebound of the same next() call with no pixel returned in between leaves
\* the x component of the start velocity (and of the acceleration) 0.
C6_ReboundReanchorsOrDamps ==
    JustRebounded =>
        /\ ballistics.start_pos = PreReboundPos
        /\ ballistics.cur_pos = PreReboundPos
        /\ ballistics.last_updated = Zero
        /\ ballistics.start_velocity =
               IF reb.dbl THEN <<Zero, Reflected[2]>> ELSE Reflected
        /\ ballistics.acceleration =
               IF reb.dbl THEN <<Zero, reb.b.acceleration[2]>>
               ELSE reb.b.acceleration

\* a single horizontal rebound of a moving trajectory, with damping
C6_Witness ==
    /\ JustRebounded
    /\ ~reb.dbl
    /\ reb.h
    /\ PreReboundVelocity[1] # Zero
    /\ reb.b.rebound_efficiency # One
    /\ reb.b.last_updated # Zero

\* C7 (as claimed): in an exhausted run, the simulation times at which its
\* rebounds re-anchored the trajectory plus the final last_updated add up to
\* the end time T requested from positions_iter.
C7_TimeBudgetIsArgument ==
    \A k \in Runs :
        (log[k].done /\ log[k].rebound_times # <<>>) =>
            RAdd(SumSeq(log[k].rebound_times), log[k].b_end.last_updated)
                = log[k].arg

\* C7 (amended): they add up to T * time_scale, the end time the iterator
\* is created with (ballistics.rs:95-96).
C7_TimeBudgetKept ==
    \A k \in Runs :
        log[k].done =>
            RAdd(SumSeq(log[k].rebound_times), log[k].b_end.last_updated)
                = log[k].end0

\* an exhausted run with a rebound, time spent before and after it
C7_Witness ==
    \E k \in Runs :
        /\ log[k].done
        /\ \E i \in DOMAIN log[k].rebound_times :
               log[k].rebound_times[i] # Zero
        /\ log[k].b_end.last_updated # Zero

\* the exhausted runs without a rebound
C8_Case(k) == log[k].done /\ log[k].rebound_times = <<>>

\* C8 (as claimed): when a run without rebound returns None, last_updated
\* is the end_time passed to positions_iter and cur_pos is pos(end_time),
\* for every time_scale.
C8_SnapsToArgument ==
    \A k \in Runs :
        C8_Case(k) =>
            /\ log[k].b_end.last_updated = log[k].arg
            /\ log[k].b_end.cur_pos = pos(log[k].b_end, log[k].arg)

\* C8 (amended): last_updated is end_time * time_scale and cur_pos is
\* pos(end_time * time_scale).
C8_SnapsToScaledArgument ==
    \A k \in Runs :
        C8_Case(k) =>
            /\ log[k].b_end.last_updated
                   = RMul(log[k].arg, log[k].b0.time_scale)
            /\ log[k].b_end.cur_pos
                   = pos(log[k].b0, RMul(log[k].arg, log[k].b0.time_scale))

\* an exhausted run without rebound under a time_scale other than 1
C8_Witness ==
    \E k \in Runs :
        /\ C8_Case(k)
        /\ log[k].b0.time_scale # One
        /\ log[k].path # <<>>
        /\ ret.kind = "none"

-----------------------------------------------------------------------------
(* Landscape: the claims *)

\* the update() call just made is the first one since a subsidence() that
\* found no floating cell, and destroy_circle has not run in between
C9_Case == lhist.settled /\ lhist.updates = 1

\* C9, as stated: if subsidence() is called on a terrain in which no solid
\* cell has an empty cell directly below it, the very first update() call
\* after it returns true, however little time has elapsed.
C9_FirstUpdateTrue ==
    C9_Case => lhist.update_ret = "true"

\* C9, amended: if subsidence() is called on a terrain in which no solid
\* cell has an empty cell directly below it, the first update() call after
\* it returns true exactly when the drop distance
\* round(G * t * t * TIME_SCALE) it computes from the elapsed time t is at
\* least 1; an earlier call returns false and the collapse stays in progress.
C9_FirstUpdateTrueOnceDropped ==
    C9_Case =>
        /\ lhist.update_ret = "true" <=> landscape.subsidence_last_pos >= 1
        /\ lhist.update_ret = "true" <=> ~is_subsidence(landscape)
        /\ ~lhist.moved

\* a settled terrain whose first update() returned true
C9_Witness ==
    /\ C9_Case
    /\ lhist.update_ret = "true"
    /\ landscape.subsidence_last_pos >= 1

\* C10: subsidence terminates: after subsidence(), if update() keeps being
\* called while the elapsed time keeps growing and nothing else mutates the
\* buffer, some update() call eventually returns true.
C10_SubsidenceTerminates ==
    is_subsidence(landscape) ~> lhist.update_ret = "true"

\* a collapse in which cells did fall has been reported as finished, and
\* nothing floats any more
C10_Witness ==
    /\ lhist.update_ret = "true"
    /\ lhist.moved
    /\ ~is_subsidence(landscape)
    /\ ~Floating(landscape.buffer)

-----------------------------------------------------------------------------
(* Landscape: what the claims about single calls speak about *)

\* the solid cells of column x from buffer row r down to the bottom row
ColumnCells(buf, x, r) ==
    Cardinality({ i \in Cells : i % Width = x /\ i \div Width >= r
                                             /\ buf[i] # 0 })

\* from b0 to b1 every column keeps its number of solid cells, and no row
\* has fewer solid cells at or below it than before
OnlyFell(b0, b1) ==
    \A x \in Columns :
        /\ ColumnCells(b1, x, 0) = ColumnCells(b0, x, 0)
        /\ \A r \in 0 .. Height - 1 :
               ColumnCells(b1, x, r) >= ColumnCells(b0, x, r)

\* C11: update() conserves terrain: across one update() call, and across
\* all the update() calls since the last subsidence(), every column keeps
\* its number of solid cells and its cells only move downward.
C11_UpdateConserves ==
    /\ call.op = "update" => OnlyFell(call.before.buffer, landscape.buffer)
    /\ run.valid => OnlyFell(run.l0.buffer, landscape.buffer)

\* C11: an update() call of a run has just moved cells
C11_Witness ==
    /\ call.op = "update"
    /\ run.valid
    /\ call.before.buffer # landscape.buffer

\* C12: every call to subsidence(), also one made while a collapse is in
\* progress, sets the anchor instant to the time of the call (no time has
\* elapsed since the anchor), resets the window of columns to the full
\* width and leaves the buffer unchanged.
C12_SubsidenceRestarts ==
    call.op = "subsidence" =>
        /\ landscape.subsidence_started = [some |-> TRUE, elapsed |-> 0]
        /\ landscape.subsidence_skip = 0
        /\ landscape.subsidence_take = Width
        /\ landscape.buffer = call.before.buffer

\* C13: the terrain follows Idle -> Subsiding -> Idle: is_subsidence() is
\* false after construction, true right after subsidence(), stays true over
\* every call except an update() that returns true and is false right after
\* that call; update() returns true at most once per subsidence() run; and
\* update() called while idle returns false and changes neither the buffer
\* nor the changed flag.
C13_Lifecycle ==
    /\ call.op = "new" => ~is_subsidence(landscape)
    /\ call.op = "subsidence" => is_subsidence(landscape)
    /\ (call.op # "new" /\ is_subsidence(call.before)
            /\ ~(call.op = "update" /\ call.ret))
           => is_subsidence(landscape)
    /\ (call.op = "update" /\ call.ret)
           => is_subsidence(call.before) /\ ~is_subsidence(landscape)
    /\ run.trues <= 1
    /\ (call.op = "update" /\ ~is_subsidence(call.before))
           => /\ ~call.ret
              /\ landscape.buffer = call.before.buffer
              /\ landscape.changed = call.before.changed

\* C13: a run has gone Idle -> Subsiding -> Idle: its update() returned
\* true after cells fell, and an update() called on the idle terrain after
\* it has returned false
C13_Witness ==
    /\ run.valid
    /\ run.trues = 1
    /\ run.l0.buffer # landscape.buffer
    /\ call.op = "update"
    /\ ~is_subsidence(call.before)
    /\ ~call.ret

\* the point (x, y) lies on the terrain
OnTerrain(x, y) == x >= 0 /\ y >= 0 /\ x < Width /\ y < Height

\* C14: is_not_empty(x, y) returns false for every point off the terrain;
\* for a point on it, it returns whether the cell at buffer index
\* (height - y - 1) * width + x is non-zero, an index inside the buffer (so
\* (0, 0) is the first cell of the last buffer row, the bottom-left one);
\* the call changes nothing.
C14_IsNotEmpty ==
    call.op = "is_not_empty" =>
        LET x == call.args[1]
            y == call.args[2]
        IN  /\ ~OnTerrain(x, y) => ~call.ret
            /\ OnTerrain(x, y) =>
                   /\ (Height - y - 1) * Width + x \in Cells
                   /\ call.ret
                          = (call.before.buffer[(Height - y - 1) * Width + x]
                                 # 0)
            /\ landscape = call.before

\* C14: a solid cell was found on the terrain at a point where the cell of
\* the mirrored row is empty
C14_Witness ==
    /\ call.op = "is_not_empty"
    /\ OnTerrain(call.args[1], call.args[2])
    /\ call.ret
    /\ call.before.buffer[call.args[2] * Width + call.args[1]] = 0

\* the cells of row y at the columns x .. x + n - 1
RowCells(x, y, n) ==
    { i \in Cells : /\ i \div Width = Height - 1 - y
                    /\ x <= i % Width
                    /\ i % Width < x + n }

\* C15: get_pixels_line_mut((x, y), length) returns None exactly when the
\* start point is off the terrain or length is 0; otherwise the view has
\* exactly min(length, width - x) cells, the cells of row y at the columns
\* x, x + 1, ..., all inside the buffer; the call itself changes nothing.
C15_PixelsLine ==
    call.op = "get_pixels_line_mut" =>
        LET x == call.args[1]
            y == call.args[2]
            length == call.args[3]
        IN  /\ ~call.ret <=> (~OnTerrain(x, y) \/ length = 0)
            /\ call.ret =>
                   /\ Cardinality(call.view) = Min(length, Width - x)
                   /\ call.view = RowCells(x, y, Min(length, Width - x))
                   /\ call.view \subseteq Cells
            /\ landscape = call.before

\* C15: a view that was clipped at the end of a row above the last one
C15_Witness ==
    /\ call.op = "get_pixels_line_mut"
    /\ call.ret
    /\ call.args[2] > 0
    /\ call.args[1] + call.args[3] > Width
    /\ Cardinality(call.view) = Width - call.args[1]

\* the point of the terrain the buffer cell i holds
CellX(i) == i % Width
CellY(i) == Height - 1 - (i \div Width)

\* the boundary of the circle destroy_circle(cx, cy, radius) draws
Boundary(cx, cy, radius) ==
    CirclePoints[cx, cy, -(radius - 1), 0, 2 - 2 * (radius - 1)]

\* the point (x, y) is not on the boundary B and has points of B on its
\* scanline on both sides and in its column on both sides
StrictlyInside(x, y, B) ==
    /\ <<x, y>> \notin B
    /\ \E b \in B : b[2] = y /\ b[1] < x
    /\ \E b \in B : b[2] = y /\ b[1] > x
    /\ \E b \in B : b[1] = x /\ b[2] < y
    /\ \E b \in B : b[1] = x /\ b[2] > y

\* C16: after destroy_circle(center, radius) every cell of the terrain that
\* lies strictly inside the Bresenham circle of the truncated centre and of
\* radius - 1 is empty, left and right of the centre alike.
C16_InsideIsEmpty ==
    call.op = "destroy_circle" =>
        LET B == Boundary(call.args[1], call.args[2], call.args[3])
        IN  \A i \in Cells :
                StrictlyInside(CellX(i), CellY(i), B)
                    => landscape.buffer[i] = 0

\* C16: a solid cell right of the centre and strictly inside the circle has
\* been emptied
C16_Witness ==
    /\ call.op = "destroy_circle"
    /\ \E i \in Cells :
           /\ StrictlyInside(CellX(i), CellY(i),
                  Boundary(call.args[1], call.args[2], call.args[3]))
           /\ CellX(i) > call.args[1]
           /\ call.before.buffer[i] # 0
           /\ landscape.buffer[i] = 0

\* the cell i is within radius - 1 of the centre in its column and its row
InBox(i, cx, cy, radius) ==
    /\ cx - (radius - 1) <= CellX(i) /\ CellX(i) <= cx + (radius - 1)
    /\ cy - (radius - 1) <= CellY(i) /\ CellY(i) <= cy + (radius - 1)

\* C17: destroy_circle(center, radius) turns no empty cell solid, and every
\* cell whose column is outside [cx - (radius-1), cx + (radius-1)] or whose
\* row is outside [cy - (radius-1), cy + (radius-1)] keeps its value, also
\* when the circle is partly or wholly off the terrain.
C17_OnlyRemovesNearby ==
    call.op = "destroy_circle" =>
        \A i \in Cells :
            /\ call.before.buffer[i] = 0 => landscape.buffer[i] = 0
            /\ ~InBox(i, call.args[1], call.args[2], call.args[3])
                   => landscape.buffer[i] = call.before.buffer[i]

\* C17: a circle whose centre is off the terrain has removed terrain and a
\* solid cell out of its reach is still there
C17_Witness ==
    /\ call.op = "destroy_circle"
    /\ ~OnTerrain(call.args[1], call.args[2])
    /\ landscape.buffer # call.before.buffer
    /\ \E i \in Cells :
           /\ ~InBox(i, call.args[1], call.args[2], call.args[3])
           /\ landscape.buffer[i] # 0

\* destroy_circle has turned a solid cell empty
Removed ==
    \E i \in Cells : call.before.buffer[i] # 0 /\ landscape.buffer[i] = 0

\* C18: destroy_circle sets the changed flag exactly when it turned at
\* least one solid cell empty, a flag that was set before staying set; and
\* the same call made again once the texture sync has cleared the flag
\* leaves the buffer as it is and the flag cleared.
C18_ChangedIffRemoved ==
    call.op = "destroy_circle" =>
        /\ landscape.changed = (call.before.changed \/ Removed)
        /\ destroy_circle(texture_sync(landscape), call.args[1],
                          call.args[2], call.args[3])
               = texture_sync(landscape)

\* C18: on a terrain whose flag was cleared, destroy_circle has removed
\* terrain and set the flag
C18_Witness ==
    /\ call.op = "destroy_circle"
    /\ ~call.before.changed
    /\ Removed
    /\ landscape.changed

\* C19: after generate, destroy_circle or update has altered at least one
\* buffer cell changed() is true, and no call but the texture sync clears
\* the flag.
C19_ChangedAfterAlteration ==
    /\ (call.op \in {"generate", "destroy_circle", "update"}
            /\ landscape.buffer # call.before.buffer)
           => landscape.changed
    /\ (call.op \notin {"new", "texture_sync"} /\ call.before.changed)
           => landscape.changed

\* the single update() call at the time of the last update() call of the
\* run, made on the landscape subsidence() left
SingleUpdate ==
    update([run.l0 EXCEPT !.subsidence_started.elapsed = run.t_last])

\* C20: skipped update() calls are not lossy: after the update() calls of
\* one subsidence run, the last of them at elapsed time tn, the buffer,
\* whether the collapse has been reported complete and the number of drop
\* steps executed in all are those of a single update() call at tn.
C20_SkippedUpdatesNotLossy ==
    (run.valid /\ call.op = "update" /\ is_subsidence(call.before)) =>
        LET single == SingleUpdate
        IN  /\ landscape.buffer = single.l.buffer
            /\ (run.trues > 0) = single.ret
            /\ run.steps = single.steps
            /\ is_subsidence(landscape) = is_subsidence(single.l)

\* C20: the last update() call of a run executed drop steps, calls before
\* it had executed others, and cells have fallen
C20_Witness ==
    /\ run.valid
    /\ call.op = "update"
    /\ is_subsidence(call.before)
    /\ update(call.before).steps > 0
    /\ run.steps > update(call.before).steps
    /\ landscape.buffer # run.l0.buffer

\* column x of buf has the rows [0, y) empty and the rows [y, Height) solid
ColumnSplitAt(buf, x, y) ==
    \A r \in 0 .. Height - 1 :
        (buf[r * Width + x] = 0) = (r < y)

\* C21: generate() is a full rewrite: whatever the buffer held before,
\* afterwards every column x has a height y in [0, height] with its buffer
\* rows [0, y) empty and its rows [y, height) solid, no solid cell has an
\* empty cell below it, and the buffer is the one the column heights give
\* on a fresh landscape.
C21_GenerateRewrites ==
    call.op = "generate" =>
        /\ \A x \in Columns :
               \E y \in 0 .. Height : ColumnSplitAt(landscape.buffer, x, y)
        /\ \A x \in Columns :
               ColumnSplitAt(landscape.buffer, x, call.args[x])
        /\ ~Floating(landscape.buffer)
        /\ landscape.buffer = LandscapeNew(call.args).buffer

\* C21: generate() has rewritten a carved terrain in which a solid cell
\* had an empty cell below it, lowering a column that was solid higher up
C21_Witness ==
    /\ call.op = "generate"
    /\ Floating(call.before.buffer)
    /\ \E i \in Cells : call.before.buffer[i] # 0 /\ landscape.buffer[i] = 0
    /\ \E i \in Cells : call.before.buffer[i] = 0 /\ landscape.buffer[i] # 0

\* the buffer after at most n drop steps over the full width, stopped by
\* the first step that moves nothing
FullWidthSettle[buf \in Buffers, n \in Nat] == IF n = 0 \/ ~DropStep[buf, 0, Width].acc.changed THEN buf ELSE FullWidthSettle[DropStep[buf, 0, Width].buf, n - 1]

PrevPixel(k, i) ==
    IF i = 1 THEN FloorVec(log[k].b0.cur_pos) ELSE log[k].path[i - 1]

\* the pixels p and q are equal or neighbours, diagonals included
Adjacent(p, q) == Abs(p[1] - q[1]) <= 1 /\ Abs(p[2] - q[2]) <= 1

\* C25: positions_iter never skips a pixel: every pixel a run returns
\* differs from the one before it (for the first, from the pixel of cur_pos
\* at the creation of the iterator) by at most 1 in x and at most 1 in y.
C25_NeverSkipsPixel ==
    \A k \in Runs :
        \A i \in DOMAIN log[k].path :
            Adjacent(log[k].path[i], PrevPixel(k, i))

\* C26: positions_iter yields only pixel transitions: in every run of the
\* iterator, a first run as well as one created after earlier runs, and with
\* or without rebounds, each yielded pixel differs from the pixel yielded
\* before it, and the first yielded pixel differs from the pixel that
\* contained cur_pos when the iterator was created.
C26_OnlyTransitions ==
    \A k \in Runs : \A i \in DOMAIN log[k].path : log[k].path[i] # PrevPixel(k, i)

C26_Witness ==
    /\ C26_OnlyTransitions
    /\ \E k \in Runs :
        /\ k > 1
        /\ log[k - 1].path # <<>>
        /\ log[k].rebound_times # <<>>
        /\ Len(log[k].path) >= 2

-----------------------------------------------------------------------------
(* Ballistics: trajectories that may start outside the borders *)

\* Ballistics::new accepts any start position, and the borders are given to
\* positions_iter only: a trajectory may start left of the borders.
StrayTrajectories ==
    { \* into the lower right corner of the borders
      <<<<Q(7, 4), Q(3, 4)>>, <<One, Q(-1, 1)>>, <<Zero, Zero>>>>,
      \* a shot under gravity, from inside the borders
      <<<<Q(1, 2), Q(3, 4)>>, <<One, Zero>>, <<Zero, Q(-1, 1)>>>>,
      \* up and to the left, from the left of the borders
      <<<<Q(-3, 2), Q(3, 4)>>, <<Q(-1, 1), One>>, <<Zero, Zero>>>> }

StrayInit == BInitFrom(StrayTrajectories) /\ LIdle

StraySpec == StrayInit /\ [][BNext]_vars

\* the horizontal motion of the trajectory is switched off
Zeroed == ballistics.start_velocity[1] = Zero /\ ballistics.acceleration[1] = Zero

\* this step is a rebound of the running next()
ReboundTaken ==
    /\ Len(log') = Len(log)
    /\ log # <<>>
    /\ Len(log'[Len(log)].rebound_times) > Len(log[Len(log)].rebound_times)

\* the x coordinate of the trajectory lies in a pixel column of the borders
XInside ==
    /\ 0 <= Floor(ballistics.start_pos[1])
    /\ Floor(ballistics.start_pos[1]) < iter.borders.width

\* C27 (as claimed): a rebound that follows another rebound of the same
\* next() call, with no pixel returned in between, leaves start_velocity.x
\* and acceleration.x exactly 0 whichever axis was violated; from then on
\* these stay 0, the x coordinate of the trajectory does not change, and no
\* rebound is a horizontal one.
C27_DoubleReboundFreezesX ==
    [][ /\ (ReboundTaken /\ rebound_on_prev_step) => Zeroed'
        /\ Zeroed =>
            /\ Zeroed'
            /\ ballistics'.start_pos[1] = ballistics.start_pos[1]
            /\ ReboundTaken => ~reb'.h ]_vars

\* C27 (amended): the same, except that horizontal rebounds are excluded
\* only while the frozen x coordinate lies inside the horizontal borders.
C27_DoubleReboundFreezesXInside ==
    [][ /\ (ReboundTaken /\ rebound_on_prev_step) => Zeroed'
        /\ Zeroed =>
            /\ Zeroed'
            /\ ballistics'.start_pos[1] = ballistics.start_pos[1]
            /\ (ReboundTaken /\ XInside) => ~reb'.h ]_vars

\* a double rebound has just stopped a trajectory that moved horizontally,
\* at an x coordinate inside the borders
C27_Witness ==
    /\ JustRebounded
    /\ reb.dbl
    /\ PreReboundVelocity[1] # Zero
    /\ Zeroed
    /\ XInside

\* the point p lies in the pixel (x, y)
InPixel(p, x, y) ==
    /\ RLe(Q(x, 1), p[1]) /\ RLt(p[1], Q(x + 1, 1))
    /\ RLe(Q(y, 1), p[2]) /\ RLt(p[2], Q(y + 1, 1))

\* this step is a next() call returning Some(pixel)
YieldTaken ==
    /\ Len(log') = Len(log)
    /\ log # <<>>
    /\ Len(log'[Len(log)].path) > Len(log[Len(log)].path)

\* C28: a caller that stops pulling early sees only the consumed steps: when
\* next() returns Some((x, y)) the trajectory's cur_pos lies in pixel (x, y),
\* last_updated is the simulation time of that sample (cur_pos is the
\* position at it, and it is not past the end time), and it is strictly
\* greater than it was at the previous yield of the iterator when no rebound
\* happened in between.
C28_YieldPersistsSample ==
    [][ YieldTaken =>
          /\ ret'.kind = "some"
          /\ InPixel(ballistics'.cur_pos, ret'.x, ret'.y)
          /\ ballistics'.cur_pos = pos(ballistics', ballistics'.last_updated)
          /\ RLe(ballistics'.last_updated, iter.end_time)
          /\ (log[Len(log)].path # <<>> /\ ~rebound_on_prev_step) =>
                RLt(ballistics.last_updated, ballistics'.last_updated) ]_vars

\* next() has just returned a second pixel, at a position off the pixel grid
\* with a negative coordinate
C28_Witness ==
    /\ pc = "ready"
    /\ ret.kind = "some"
    /\ Len(log[Len(log)].path) >= 2
    /\ InPixel(ballistics.cur_pos, ret.x, ret.y)
    /\ ballistics.cur_pos[2] # Q(ret.y, 1)
    /\ ret.y < 0

\* C30 (as claimed): a rebound changes only what the violated axis requires:
\* when only the horizontal border is violated the vertical velocity
\* component and the acceleration are what they were before the rebound, and
\* when only the vertical border is violated the horizontal velocity
\* component and the acceleration are, for every rebound_efficiency.
C30_ReboundKeepsOtherAxis ==
    JustRebounded =>
        /\ (reb.h /\ ~reb.v) =>
              /\ ballistics.start_velocity[2] = PreReboundVelocity[2]
              /\ ballistics.acceleration = reb.b.acceleration
        /\ (reb.v /\ ~reb.h) =>
              /\ ballistics.start_velocity[1] = PreReboundVelocity[1]
              /\ ballistics.acceleration = reb.b.acceleration

\* C30 (amended): a rebound at one border multiplies the velocity component
\* along the other axis by rebound_efficiency and leaves the acceleration
\* unchanged; a rebound that follows another rebound of the same next()
\* call sets the x components of the start velocity and of the acceleration
\* to 0 instead, whichever border was violated.
C30_ReboundScalesOtherAxis ==
    JustRebounded =>
        /\ (reb.h /\ ~reb.v) =>
              /\ ballistics.start_velocity[2] =
                     RMul(PreReboundVelocity[2], reb.b.rebound_efficiency)
        /\ (reb.v /\ ~reb.h) =>
              /\ ballistics.start_velocity[1] =
                     IF reb.dbl THEN Zero
                     ELSE RMul(PreReboundVelocity[1], reb.b.rebound_efficiency)
        /\ (reb.h # reb.v) =>
              /\ ballistics.acceleration[2] = reb.b.acceleration[2]
              /\ ballistics.acceleration[1] =
                     IF reb.dbl THEN Zero ELSE reb.b.acceleration[1]

\* a damped rebound at the vertical border alone of a trajectory that moves
\* horizontally under gravity
C30_Witness ==
    /\ JustRebounded
    /\ reb.v /\ ~reb.h
    /\ ~reb.dbl
    /\ PreReboundVelocity[1] # Zero
    /\ reb.b.acceleration # <<Zero, Zero>>
    /\ reb.b.rebound_efficiency # One

-----------------------------------------------------------------------------
(* Geometry: f32 values that may be NaN *)

\* coordinates of the points tried: k/2 for k in -MaxCoord .. MaxCoord
MaxCoord == 3
\* semi-axes of the ellipses tried: 0 .. MaxAxis; the lines tried run through
\* integer points with coordinates in -MaxAxis .. MaxAxis
MaxAxis == 2

\* An f32 is a rational <<n, d>> with d > 0, an infinity or NaN.  The sign
\* of a zero is not modelled: a division of a nonzero value by 0 takes the
\* sign of the dividend.
NaN == <<0, 0>>
IsNaN(a) == a = NaN
IsFinite(a) == a[2] # 0
Sgn(a) == IF a[1] > 0 THEN 1 ELSE IF a[1] < 0 THEN -1 ELSE 0

FNeg(a) == <<-a[1], a[2]>>
FAdd(a, b) ==
    IF IsFinite(a) /\ IsFinite(b) THEN RAdd(a, b)
    ELSE IF IsNaN(a) \/ IsNaN(b) THEN NaN
    ELSE IF IsFinite(a) THEN b
    ELSE IF IsFinite(b) \/ a = b THEN a
    ELSE NaN
FSub(a, b) == FAdd(a, FNeg(b))
FMul(a, b) ==
    IF IsFinite(a) /\ IsFinite(b) THEN RMul(a, b)
    ELSE IF IsNaN(a) \/ IsNaN(b) THEN NaN
    ELSE <<Sgn(a) * Sgn(b), 0>>
FDiv(a, b) ==
    IF IsNaN(a) \/ IsNaN(b) THEN NaN
    ELSE IF IsFinite(a) /\ IsFinite(b)
    THEN IF b = Zero THEN <<Sgn(a), 0>> ELSE RMul(a, RInv(b))
    ELSE IF IsFinite(b) THEN <<Sgn(a) * (IF Sgn(b) < 0 THEN -1 ELSE 1), 0>>
    ELSE IF IsFinite(a) THEN Zero
    ELSE NaN
\* comparisons with NaN are false
FLe(a, b) ==
    /\ ~IsNaN(a) /\ ~IsNaN(b)
    /\ \/ a = <<-1, 0>>
       \/ b = <<1, 0>>
       \/ IsFinite(a) /\ IsFinite(b) /\ RLe(a, b)
FLt(a, b) == ~IsNaN(a) /\ ~IsNaN(b) /\ ~FLe(b, a)
\* f32::max and f32::min: a NaN operand is ignored
FMax(a, b) == IF IsNaN(a) THEN b ELSE IF IsNaN(b) THEN a ELSE IF FLe(a, b) THEN b ELSE a
FMin(a, b) == IF IsNaN(a) THEN b ELSE IF IsNaN(b) THEN a ELSE IF FLe(a, b) THEN a ELSE b
FAbs(a) == IF Sgn(a) < 0 THEN FNeg(a) ELSE a

VSub(u, v) == <<FSub(u[1], v[1]), FSub(u[2], v[2])>>
Dot(u, v) == FAdd(FMul(u[1], v[1]), FMul(u[2], v[2]))
\* Vec2::perp_dot
PerpDot(u, v) == FSub(FMul(u[1], v[2]), FMul(u[2], v[1]))

HalfCoords == { Q(k, 2) : k \in (-MaxCoord) .. MaxCoord }
GeomPoints == HalfCoords \X HalfCoords
GeomCentres == { <<Zero, Zero>>, <<One, Q(-3, 2)>> }

-----------------------------------------------------------------------------
(* Geometry: Ellipse (geometry/ellipse.rs) *)

\* Ellipse::new; the assertions admit a = 0 and b = 0
Ellipse_new(center, a, b) ==
    [center |-> center, a |-> a, b |-> b, a2 |-> FMul(a, a), b2 |-> FMul(b, b)]

Ellipses ==
    { Ellipse_new(c, Q(a, 1), Q(b, 1)) :
        c \in GeomCentres, a \in 0 .. MaxAxis, b \in 0 .. MaxAxis }

\* a faulty variant of point_position: no branch for degenerate ellipses
point_position_implicit_only(e, point) ==
    LET p == VSub(point, e.center)
    IN  FSub(FAdd(FDiv(FMul(p[1], p[1]), e.a2), FDiv(FMul(p[2], p[2]), e.b2)),
             One)

\* Ellipse::point_position
point_position(e, point) ==
    LET p == VSub(point, e.center)
    IN  IF e.a = Zero \/ e.b = Zero
        THEN LET x_len == FSub(FAbs(p[1]), e.a)
                 y_len == FSub(FAbs(p[2]), e.b)
             IN  FMax(FMax(x_len, y_len), Zero)
        ELSE FSub(FAdd(FDiv(FMul(p[1], p[1]), e.a2),
                       FDiv(FMul(p[2], p[2]), e.b2)),
                  One)

-----------------------------------------------------------------------------
(* Geometry: Circle, intersections with a line (geometry/circle.rs:11-93) *)

\* the integer square root
ISqrt[n \in Nat] ==
    IF n < 2 THEN n
    ELSE LET s == 2 * ISqrt[n \div 4]
         IN  IF (s + 1) * (s + 1) <= n THEN s + 1 ELSE s

\* the value has a rational square root
IsSquare(a) ==
    /\ IsFinite(a) /\ a[1] >= 0
    /\ ISqrt[a[1]] * ISqrt[a[1]] = a[1]
    /\ ISqrt[a[2]] * ISqrt[a[2]] = a[2]

\* f32::sqrt, exact on the squares of rationals; the calls tried keep every
\* radicand such a square or negative
FSqrt(a) ==
    IF IsNaN(a) \/ a[1] < 0 THEN NaN
    ELSE <<ISqrt[a[1]], ISqrt[a[2]]>>

\* a faulty variant of signum: the sign is dropped
signum_always_one(a) == One

\* f32::signum: 1.0 for a zero
signum(a) == IF IsNaN(a) THEN NaN ELSE IF a[1] < 0 THEN <<-1, 1>> ELSE One

\* Circle::new; the assertion admits radius 0
Circle_new(center, radius) == [center |-> center, radius |-> radius]

\* the discriminant of line_intersection (circle.rs:29-35)
discriminant(c, point1, point2) ==
    LET p1 == VSub(point1, c.center)
        p2 == VSub(point2, c.center)
        line_vector == VSub(p2, p1)
        dr2 == Dot(line_vector, line_vector)
        d == PerpDot(p1, p2)
    IN  FSub(FMul(FMul(c.radius, c.radius), dr2), FMul(d, d))

\* Circle::line_intersection
line_intersection(c, point1, point2) ==
    LET p1 == VSub(point1, c.center)
        p2 == VSub(point2, c.center)
        line_vector == VSub(p2, p1)
        dr2 == Dot(line_vector, line_vector)
        d == PerpDot(p1, p2)
        disc == discriminant(c, point1, point2)
    IN  IF FLt(Zero, disc)
        THEN LET discr_sqrt == FSqrt(disc)
                 dx == FMul(FNeg(d), line_vector[1])
                 dy == FMul(d, line_vector[2])
                 x_discr == FMul(FMul(signum(line_vector[2]), line_vector[1]),
                                 discr_sqrt)
                 y_dyscr == FMul(FAbs(line_vector[2]), discr_sqrt)
             IN  << <<FAdd(FDiv(FSub(dy, x_discr), dr2), c.center[1]),
                      FAdd(FDiv(FSub(dx, y_dyscr), dr2), c.center[2])>>,
                    <<FAdd(FDiv(FAdd(dy, x_discr), dr2), c.center[1]),
                      FAdd(FDiv(FAdd(dx, y_dyscr), dr2), c.center[2])>> >>
        ELSE IF disc = Zero
        THEN << <<FAdd(FDiv(FMul(d, line_vector[2]), dr2), c.center[1]),
                  FAdd(FDiv(FMul(FNeg(d), line_vector[1]), dr2), c.center[2])>> >>
        ELSE <<>>

\* the filter of segment_intersection (circle.rs:84-92)
on_segment(point1, point2, res_point) ==
    LET segment_vector == VSub(point2, point1)
        segment_len2 == Dot(segment_vector, segment_vector)
        dot == Dot(segment_vector, VSub(res_point, point1))
    IN  FLe(Zero, dot) /\ FLe(dot, segment_len2)

\* Circle::segment_intersection
segment_intersection(c, point1, point2) ==
    LET result == line_intersection(c, point1, point2)
        keep(res_point) == on_segment(point1, point2, res_point)
    IN  IF result = <<>> THEN result ELSE SelectSeq(result, keep)

\* the circles tried: radius 0, 1 and 5/2
Circles ==
    { Circle_new(c, r) : c \in GeomCentres, r \in {Zero, One, Q(5, 2)} }

\* the lines tried run through two different points with integer coordinates
LinePoints ==
    LET ps == { <<Q(x, 1), Q(y, 1)>> : x, y \in (-MaxAxis) .. MaxAxis }
    IN  { pq \in ps \X ps : pq[1] # pq[2] }

\* ... and have a discriminant with a rational square root
LineInputs ==
    { in \in { <<c, pq[1], pq[2]>> : c \in Circles, pq \in LinePoints } :
        LET disc == discriminant(in[1], in[2], in[3])
        IN  FLt(Zero, disc) => IsSquare(disc) }

\* circle.line_intersection(point1, point2)
LineIntersectionCall ==
    /\ geom.op = "line_intersection"
    /\ ~geom.called
    /\ geom' = [geom EXCEPT !.called = TRUE,
                            !.ret = line_intersection(geom.args[1],
                                        geom.args[2], geom.args[3])]
    /\ UNCHANGED <<bvars, lvars>>

\* circle.segment_intersection(point1, point2)
SegmentIntersectionCall ==
    /\ geom.op = "segment_intersection"
    /\ ~geom.called
    /\ geom' = [geom EXCEPT !.called = TRUE,
                            !.ret = segment_intersection(geom.args[1],
                                        geom.args[2], geom.args[3])]
    /\ UNCHANGED <<bvars, lvars>>

-----------------------------------------------------------------------------
(* Geometry: Circle, area of the overlap with a rectangle
   (geometry/circle.rs:95-171) *)

\* The area is a sum of rationals, multiples of pi and values of sqrt and
\* asin that have no closed form.  It is kept exact as a linear form: a set
\* of <<atom, coefficient>> with rational nonzero coefficients, where an
\* atom is <<"one", 0>>, <<"pi", 0>>, <<"sqrt", w>> for sqrt(w) with w not a
\* square, or <<"asin", f>> for asin(f) with 0 < f < 1; or it is NaN.
LNaN == [nan |-> TRUE, terms |-> {}]
LForm(ts) == [nan |-> FALSE, terms |-> { t \in ts : t[2] # Zero }]
LConst(q) == IF IsNaN(q) THEN LNaN ELSE LForm({ <<<<"one", Zero>>, q>> })
LPi(q) == IF IsNaN(q) THEN LNaN ELSE LForm({ <<<<"pi", Zero>>, q>> })
LCoef(ts, k) ==
    IF \E t \in ts : t[1] = k THEN (CHOOSE t \in ts : t[1] = k)[2] ELSE Zero
LAdd(a, b) ==
    IF a.nan \/ b.nan THEN LNaN
    ELSE LForm({ <<k, RAdd(LCoef(a.terms, k), LCoef(b.terms, k))>> :
                   k \in { t[1] : t \in a.terms \cup b.terms } })
\* the form times an f32 that is rational or NaN
LScale(a, q) ==
    IF a.nan \/ IsNaN(q) THEN LNaN
    ELSE LForm({ <<t[1], RMul(t[2], q)>> : t \in a.terms })
LSub(a, b) == LAdd(a, LScale(b, <<-1, 1>>))

\* f32::sqrt as a linear form
LSqrt(w) ==
    IF IsNaN(w) \/ w[1] < 0 THEN LNaN
    ELSE IF IsSquare(w) THEN LConst(FSqrt(w))
    ELSE LForm({ <<<<"sqrt", w>>, One>> })

\* f32::asin as a linear form: asin is odd, asin(0) = 0, asin(1) = pi / 2
LAsin(f) ==
    IF IsNaN(f) \/ RLt(One, RAbs(f)) THEN LNaN
    ELSE IF f = Zero THEN LForm({})
    ELSE IF RAbs(f) = One THEN LPi(RMul(f, Q(1, 2)))
    ELSE LForm({ <<<<"asin", RAbs(f)>>, IF f[1] < 0 THEN <<-1, 1>> ELSE One>> })

\* Circle::section
section(c, h) ==
    IF FLt(h, c.radius)
    THEN FSqrt(FSub(FMul(c.radius, c.radius), FMul(h, h)))
    ELSE Zero

\* Circle::g
g(c, x, h) ==
    LET r2 == FMul(c.radius, c.radius)
        frac_x_r == FDiv(x, c.radius)
    IN  LScale(LSub(LAdd(LScale(LSqrt(FSub(One, FMul(frac_x_r, frac_x_r))),
                                FMul(x, c.radius)),
                         LScale(LAsin(frac_x_r), r2)),
                    LConst(FMul(FMul(Two, h), x))),
               Q(1, 2))

\* Circle::area_of_intersection_of_infinity_tall_rect
area_of_intersection_of_infinity_tall_rect(c, x0, x1, h) ==
    LET s == section(c, h)
    IN  LSub(g(c, FMax(FMin(s, x1), FNeg(s)), h),
             g(c, FMax(FMin(s, x0), FNeg(s)), h))

RECURSIVE area_of_normalized_rect_intersection(_, _)
\* Circle::area_of_normalized_rect_intersection
area_of_normalized_rect_intersection(c, rect0) ==
    IF FLt(rect0.bottom, Zero) /\ ~FLt(rect0.top, Zero)
    THEN \* the rect is both above and below: two rects
         LAdd(area_of_normalized_rect_intersection(c,
                  [rect0 EXCEPT !.bottom = Zero]),
              area_of_normalized_rect_intersection(c,
                  [rect0 EXCEPT !.top = FNeg(rect0.bottom), !.bottom = Zero]))
    ELSE LET rect == IF FLt(rect0.bottom, Zero)
                     THEN \* the rect is completely under: flipped
                          [rect0 EXCEPT !.top = FNeg(rect0.bottom),
                                        !.bottom = FNeg(rect0.top)]
                     ELSE rect0
             x0 == rect.left
             x1 == rect.right
             y0 == FAbs(rect.bottom)
             y1 == FAbs(rect.top)
         IN  LSub(area_of_intersection_of_infinity_tall_rect(c, x0, x1, y0),
                  area_of_intersection_of_infinity_tall_rect(c, x0, x1, y1))

\* Circle::area_of_rect_intersection
area_of_rect_intersection(c, rect) ==
    area_of_normalized_rect_intersection(c,
        [left |-> FSub(rect.left, c.center[1]),
         right |-> FSub(rect.right, c.center[1]),
         top |-> FSub(rect.top, c.center[2]),
         bottom |-> FSub(rect.bottom, c.center[2])])

\* the rectangles tried have edges at multiples of 1/2 and are not empty
Rects ==
    { rect \in [left : HalfCoords, right : HalfCoords,
                top : HalfCoords, bottom : HalfCoords] :
        RLt(rect.left, rect.right) /\ RLt(rect.bottom, rect.top) }

\* ... and cut the circle at heights where its half-width is rational
AreaInputs ==
    { in \in Circles \X Rects :
        \A y \in { in[2].top, in[2].bottom } :
            LET h == RAbs(RSub(y, in[1].center[2]))
            IN  RLt(h, in[1].radius) =>
                    IsSquare(RSub(RMul(in[1].radius, in[1].radius), RMul(h, h))) }

\* circle.area_of_rect_intersection(rect)
AreaOfRectIntersectionCall ==
    /\ geom.op = "area_of_rect_intersection"
    /\ ~geom.called
    /\ geom' = [geom EXCEPT !.called = TRUE,
                            !.ret = area_of_rect_intersection(geom.args[1],
                                                              geom.args[2])]
    /\ UNCHANGED <<bvars, lvars>>

\* the calls tried: the function and its arguments
GeomInputs ==
    { [op |-> "point_position", args |-> <<e, point>>] :
        e \in Ellipses, point \in GeomPoints }
    \cup { [op |-> f, args |-> in] :
              f \in {"line_intersection", "segment_intersection"},
              in \in LineInputs }
    \cup { [op |-> "area_of_rect_intersection", args |-> in] :
              in \in AreaInputs }

\* ellipse.point_position(point)
PointPositionCall ==
    /\ geom.op = "point_position"
    /\ ~geom.called
    /\ geom' = [geom EXCEPT !.called = TRUE,
                            !.ret = point_position(geom.args[1], geom.args[2])]
    /\ UNCHANGED <<bvars, lvars>>

GeometryNext ==
    \/ PointPositionCall
    \/ LineIntersectionCall
    \/ SegmentIntersectionCall
    \/ AreaOfRectIntersectionCall

\* the arguments of one call of a geometry function are chosen
GeometryInit ==
    /\ BFresh({<<<<Zero, Zero>>, <<Zero, Zero>>, <<Zero, Zero>>>>})
    /\ LIdle
    /\ \E in \in GeomInputs :
           geom = [op |-> in.op, args |-> in.args, called |-> FALSE, ret |-> <<>>]

GeometrySpec == GeometryInit /\ [][GeometryNext]_vars

\* the point of the last call relative to the centre, and the semi-axes
EPoint == VSub(geom.args[2], geom.args[1].center)
EA == geom.args[1].a
EB == geom.args[1].b
\* where the point lies, by the ellipse's equation cleared of fractions
ELevel ==
    RSub(RAdd(RMul(RMul(EB, EB), RMul(EPoint[1], EPoint[1])),
              RMul(RMul(EA, EA), RMul(EPoint[2], EPoint[2]))),
         RMul(RMul(EA, EA), RMul(EB, EB)))
\* the point lies within the box |x - cx| <= a, |y - cy| <= b
EInBox == RLe(RAbs(EPoint[1]), EA) /\ RLe(RAbs(EPoint[2]), EB)

\* C24: point_position classifies points by sign: for a > 0 and b > 0 the
\* result is negative exactly for the points strictly inside the ellipse, 0
\* exactly for the points on it and positive exactly for the points
\* outside; for a = 0 or b = 0 the result is 0 exactly when |x - cx| <= a
\* and |y - cy| <= b and positive otherwise; the result is never the outcome
\* of a division by zero.
C24_PointPositionSign ==
    (geom.op = "point_position" /\ geom.called) =>
        /\ IsFinite(geom.ret)
        /\ (EA # Zero /\ EB # Zero) =>
              /\ RLt(geom.ret, Zero) <=> RLt(ELevel, Zero)
              /\ geom.ret = Zero <=> ELevel = Zero
              /\ RLt(Zero, geom.ret) <=> RLt(Zero, ELevel)
        /\ (EA = Zero \/ EB = Zero) =>
              /\ geom.ret = Zero <=> EInBox
              /\ RLt(Zero, geom.ret) <=> ~EInBox

\* a point on the boundary of a proper ellipse that is not a circle
C24_Witness ==
    /\ geom.op = "point_position"
    /\ geom.called
    /\ geom.ret = Zero
    /\ EPoint # <<Zero, Zero>>
    /\ EA # Zero /\ EB # Zero /\ EA # EB

\* the circle and the two points of the last intersection call
LCircle == geom.args[1]
LP1 == geom.args[2]
LP2 == geom.args[3]
\* the squared distance of the centre from the line through the two points,
\* times the squared length of their difference
LDist2 ==
    LET u == VSub(LP1, LCircle.center)
        l == VSub(LP2, LP1)
    IN  RSub(RMul(Dot(u, u), Dot(l, l)), RMul(Dot(u, l), Dot(u, l)))
\* the squared radius, on the same scale
LRadius2 ==
    RMul(RMul(LCircle.radius, LCircle.radius),
         Dot(VSub(LP2, LP1), VSub(LP2, LP1)))
OnLine(pt) ==
    ~IsNaN(pt[1]) /\ ~IsNaN(pt[2])
    /\ PerpDot(VSub(pt, LP1), VSub(LP2, LP1)) = Zero
OnCircle(pt) ==
    ~IsNaN(pt[1]) /\ ~IsNaN(pt[2])
    /\ Dot(VSub(pt, LCircle.center), VSub(pt, LCircle.center))
           = RMul(LCircle.radius, LCircle.radius)
\* the projection of the point on the segment lies within it
Within(pt) ==
    LET l == VSub(LP2, LP1)
        t == Dot(VSub(pt, LP1), l)
    IN  RLe(Zero, t) /\ RLe(t, Dot(l, l))
\* the points of the line with the circle, as the line call returns them
LinePoints2 == line_intersection(LCircle, LP1, LP2)

\* C23: line_intersection returns no point when the line through the two
\* points misses the circle, one point when it is tangent and two different
\* points when it cuts the circle, each of them on the line and on the
\* circle; segment_intersection returns, in the same order, exactly those of
\* these points whose projection on the segment lies within
\* [0, |p2 - p1|^2], ends included.
C23_Intersections ==
    /\ (geom.op = "line_intersection" /\ geom.called) =>
          /\ Len(geom.ret) = (IF RLt(LRadius2, LDist2) THEN 0
                              ELSE IF LRadius2 = LDist2 THEN 1 ELSE 2)
          /\ \A i \in DOMAIN geom.ret : OnLine(geom.ret[i]) /\ OnCircle(geom.ret[i])
          /\ Len(geom.ret) = 2 => geom.ret[1] # geom.ret[2]
    /\ (geom.op = "segment_intersection" /\ geom.called) =>
          /\ \A i \in DOMAIN geom.ret : OnLine(geom.ret[i]) /\ OnCircle(geom.ret[i])
          /\ geom.ret = SelectSeq(LinePoints2, Within)

\* a line that falls from left to right cuts a circle that is not centred
\* at the origin
C23_Witness ==
    /\ geom.op = "line_intersection"
    /\ geom.called
    /\ Len(geom.ret) = 2
    /\ LCircle.center # <<Zero, Zero>>
    /\ RLt(LP1[1], LP2[1]) /\ RLt(LP2[2], LP1[2])

\* the circle of the last area call, and the rectangle relative to its centre
ACircle == geom.args[1]
ARadius == geom.args[1].radius
ALeft == RSub(geom.args[2].left, ACircle.center[1])
ARight == RSub(geom.args[2].right, ACircle.center[1])
ATop == RSub(geom.args[2].top, ACircle.center[2])
ABottom == RSub(geom.args[2].bottom, ACircle.center[2])
Sq(a) == RMul(a, a)
\* the interval [lo, hi] reaches from the centre beyond the circle
Beyond(lo, hi) == RLe(lo, RNeg(ARadius)) /\ RLe(ARadius, hi)
\* the interval covers exactly one half of the circle's extent
HalfOf(lo, hi) ==
    \/ lo = Zero /\ RLe(ARadius, hi)
    \/ hi = Zero /\ RLe(lo, RNeg(ARadius))
\* the point of the interval nearest to 0
Nearest(lo, hi) == RMax(lo, RMin(Zero, hi))

\* every corner of the rectangle lies in the circle
RectInCircle ==
    RLe(RAdd(RMax(Sq(ALeft), Sq(ARight)), RMax(Sq(ATop), Sq(ABottom))),
        Sq(ARadius))
CircleInRect == Beyond(ALeft, ARight) /\ Beyond(ABottom, ATop)
RectCoversHalf ==
    \/ HalfOf(ALeft, ARight) /\ Beyond(ABottom, ATop)
    \/ Beyond(ALeft, ARight) /\ HalfOf(ABottom, ATop)
RectCoversQuadrant == HalfOf(ALeft, ARight) /\ HalfOf(ABottom, ATop)
\* no point of the rectangle lies strictly inside the circle
RectOutside ==
    RLe(Sq(ARadius),
        RAdd(Sq(Nearest(ALeft, ARight)), Sq(Nearest(ABottom, ATop))))

\* C22: area_of_rect_intersection returns the exact overlap area in the
\* degenerate cases: the area of the rectangle when the rectangle lies inside
\* the circle, pi r^2 when the circle lies inside the rectangle, pi r^2 / 2
\* and pi r^2 / 4 when the rectangle covers exactly a half or a quadrant of
\* the circle, and 0 when the rectangle lies outside the circle, on any side.
C22_DegenerateAreas ==
    (geom.op = "area_of_rect_intersection" /\ geom.called) =>
        /\ RectInCircle =>
              geom.ret = LConst(RMul(RSub(ARight, ALeft), RSub(ATop, ABottom)))
        /\ CircleInRect => geom.ret = LPi(Sq(ARadius))
        /\ RectCoversHalf => geom.ret = LPi(RMul(Sq(ARadius), Q(1, 2)))
        /\ RectCoversQuadrant => geom.ret = LPi(RMul(Sq(ARadius), Q(1, 4)))
        /\ RectOutside => geom.ret = LConst(Zero)

====
